---- MODULE Spec2Model ----
\* A model of text_myself.py: one run of the script that reads Twilio
\* credentials, submits one SMS and polls the gateway for its delivery status.
\*
\* Python values are modelled as follows.
\*   - the message body and the command-line tokens are sequences of
\*     one-character strings, so that ' '.join(...) and message[:30] + '...'
\*     are computed; Python's None is the reserved sequence NoneStr;
\*   - phone numbers, credentials, statuses and the message handle are opaque
\*     strings; Python's None is the reserved string None;
\*   - a dict is a function whose DOMAIN is the set of keys it holds.
\* The gateway (Twilio) and the backoff library are not part of the
\* repository.  The gateway's answers are inputs: whether it accepts the
\* submission, and the list of answers it gives to successive fetches.  The
\* decorator of line 100 is modelled by what backoff.on_predicate does with the
\* arguments that line passes (wait generator fibo, max_value = 13, and the
\* defaults max_tries = None, max_time = None, jitter = full_jitter).
EXTENDS Integers, Sequences, FiniteSets, TLC

VARIABLES
    pc,                 \* position of the program
    argv,               \* the command line after the program name
    configExists,       \* os.path.exists(CONFIG_FILEPATH)
    config,             \* the .ini file: option |-> value (Missing if absent)
    readError,          \* what config.read raises for the file, None if nothing
    message,            \* run's / send_sms_message's `message`
    credentials,        \* the dict returned by get_sms_credentials
    client,             \* the Twilio client (None or "Client")
    from_phone_number,
    to_phone_number,
    sms_message,        \* the message handle (None or a sid)
    script,             \* the gateway's answers to successive fetches
    pos,                \* index in script of the next answer
    creates,            \* calls of client.messages.create so far
    fetches,            \* calls of ...fetch() so far (stops counting at MaxCount)
    tries,              \* the decorator's `tries` (stops counting at MaxCount)
    status,             \* run's `status`
    fibo_a, fibo_b,     \* state of the wait generator backoff.fibo
    wait_value,         \* the value the wait generator yielded last (-1: none yet)
    seconds,            \* the wait computed last, in ticks (-1: none yet)
    exc,                \* the exception being raised, None if none
    escaped,            \* the exception that left run uncaught, None if none
    log,                \* lines written through LOGGER
    out                 \* lines written to standard output

vars == << pc, argv, configExists, config, readError, message, credentials, client,
           from_phone_number, to_phone_number, sms_message, script, pos,
           creates, fetches, tries, status, fibo_a, fibo_b, wait_value,
           seconds, exc, escaped, log, out >>

\* ------------------------------------------------------------------ bounds

\* Longest list of gateway answers; the last answer repeats afterwards.
MaxScript == 3

\* Most lines after the first in the text of an exception whose length the
\* config file or the gateway library decides.
MaxTextLines == 2

\* Where the call counters stop counting (the loop itself goes on).
MaxCount == MaxScript + 2

\* Waits are real numbers of seconds in the program; here they are counted in
\* ticks of 1/TicksPerSecond of a second.
TicksPerSecond == 2

\* ------------------------------------------------------------------ values

None == "None"

NoneStr == << "None" >>

Hello == << "h", "e", "l", "l", "o" >>

Hi == << "h", "i" >>

There == << "t", "h", "e", "r", "e" >>

\* A body longer than the 30 characters the log preview keeps.
LongMessage == [i \in 1..32 |-> "x"]

Flag == << "-", "m" >>

Missing == "<missing>"

Sid == "SM1"

PhoneNumber == "+15550100"

\* Python truthiness of a string or None.
Truthy(v) == v # None /\ v # ""

\* Python truthiness of a message body.
TruthyStr(s) == s # NoneStr /\ s # << >>

\* ------------------------------------------------------------------ run: arguments

\* A character outside ASCII is written "U+" and its code point in
\* hexadecimal, and counts as one character of the text it stands in.  These
\* are the decimal digits (Unicode category Nd) outside ASCII, which the \d
\* of a Python str pattern matches like 0-9.
NonAsciiDigits ==
    {
      "U+0660", "U+0661", "U+0662", "U+0663", "U+0664", "U+0665",
      "U+0666", "U+0667", "U+0668", "U+0669", "U+06F0", "U+06F1",
      "U+06F2", "U+06F3", "U+06F4", "U+06F5", "U+06F6", "U+06F7",
      "U+06F8", "U+06F9", "U+07C0", "U+07C1", "U+07C2", "U+07C3",
      "U+07C4", "U+07C5", "U+07C6", "U+07C7", "U+07C8", "U+07C9",
      "U+0966", "U+0967", "U+0968", "U+0969", "U+096A", "U+096B",
      "U+096C", "U+096D", "U+096E", "U+096F", "U+09E6", "U+09E7",
      "U+09E8", "U+09E9", "U+09EA", "U+09EB", "U+09EC", "U+09ED",
      "U+09EE", "U+09EF", "U+0A66", "U+0A67", "U+0A68", "U+0A69",
      "U+0A6A", "U+0A6B", "U+0A6C", "U+0A6D", "U+0A6E", "U+0A6F",
      "U+0AE6", "U+0AE7", "U+0AE8", "U+0AE9", "U+0AEA", "U+0AEB",
      "U+0AEC", "U+0AED", "U+0AEE", "U+0AEF", "U+0B66", "U+0B67",
      "U+0B68", "U+0B69", "U+0B6A", "U+0B6B", "U+0B6C", "U+0B6D",
      "U+0B6E", "U+0B6F", "U+0BE6", "U+0BE7", "U+0BE8", "U+0BE9",
      "U+0BEA", "U+0BEB", "U+0BEC", "U+0BED", "U+0BEE", "U+0BEF",
      "U+0C66", "U+0C67", "U+0C68", "U+0C69", "U+0C6A", "U+0C6B",
      "U+0C6C", "U+0C6D", "U+0C6E", "U+0C6F", "U+0CE6", "U+0CE7",
      "U+0CE8", "U+0CE9", "U+0CEA", "U+0CEB", "U+0CEC", "U+0CED",
      "U+0CEE", "U+0CEF", "U+0D66", "U+0D67", "U+0D68", "U+0D69",
      "U+0D6A", "U+0D6B", "U+0D6C", "U+0D6D", "U+0D6E", "U+0D6F",
      "U+0DE6", "U+0DE7", "U+0DE8", "U+0DE9", "U+0DEA", "U+0DEB",
      "U+0DEC", "U+0DED", "U+0DEE", "U+0DEF", "U+0E50", "U+0E51",
      "U+0E52", "U+0E53", "U+0E54", "U+0E55", "U+0E56", "U+0E57",
      "U+0E58", "U+0E59", "U+0ED0", "U+0ED1", "U+0ED2", "U+0ED3",
      "U+0ED4", "U+0ED5", "U+0ED6", "U+0ED7", "U+0ED8", "U+0ED9",
      "U+0F20", "U+0F21", "U+0F22", "U+0F23", "U+0F24", "U+0F25",
      "U+0F26", "U+0F27", "U+0F28", "U+0F29", "U+1040", "U+1041",
      "U+1042", "U+1043", "U+1044", "U+1045", "U+1046", "U+1047",
      "U+1048", "U+1049", "U+1090", "U+1091", "U+1092", "U+1093",
      "U+1094", "U+1095", "U+1096", "U+1097", "U+1098", "U+1099",
      "U+17E0", "U+17E1", "U+17E2", "U+17E3", "U+17E4", "U+17E5",
      "U+17E6", "U+17E7", "U+17E8", "U+17E9", "U+1810", "U+1811",
      "U+1812", "U+1813", "U+1814", "U+1815", "U+1816", "U+1817",
      "U+1818", "U+1819", "U+1946", "U+1947", "U+1948", "U+1949",
      "U+194A", "U+194B", "U+194C", "U+194D", "U+194E", "U+194F",
      "U+19D0", "U+19D1", "U+19D2", "U+19D3", "U+19D4", "U+19D5",
      "U+19D6", "U+19D7", "U+19D8", "U+19D9", "U+1A80", "U+1A81",
      "U+1A82", "U+1A83", "U+1A84", "U+1A85", "U+1A86", "U+1A87",
      "U+1A88", "U+1A89", "U+1A90", "U+1A91", "U+1A92", "U+1A93",
      "U+1A94", "U+1A95", "U+1A96", "U+1A97", "U+1A98", "U+1A99",
      "U+1B50", "U+1B51", "U+1B52", "U+1B53", "U+1B54", "U+1B55",
      "U+1B56", "U+1B57", "U+1B58", "U+1B59", "U+1BB0", "U+1BB1",
      "U+1BB2", "U+1BB3", "U+1BB4", "U+1BB5", "U+1BB6", "U+1BB7",
      "U+1BB8", "U+1BB9", "U+1C40", "U+1C41", "U+1C42", "U+1C43",
      "U+1C44", "U+1C45", "U+1C46", "U+1C47", "U+1C48", "U+1C49",
      "U+1C50", "U+1C51", "U+1C52", "U+1C53", "U+1C54", "U+1C55",
      "U+1C56", "U+1C57", "U+1C58", "U+1C59", "U+A620", "U+A621",
      "U+A622", "U+A623", "U+A624", "U+A625", "U+A626", "U+A627",
      "U+A628", "U+A629", "U+A8D0", "U+A8D1", "U+A8D2", "U+A8D3",
      "U+A8D4", "U+A8D5", "U+A8D6", "U+A8D7", "U+A8D8", "U+A8D9",
      "U+A900", "U+A901", "U+A902", "U+A903", "U+A904", "U+A905",
      "U+A906", "U+A907", "U+A908", "U+A909", "U+A9D0", "U+A9D1",
      "U+A9D2", "U+A9D3", "U+A9D4", "U+A9D5", "U+A9D6", "U+A9D7",
      "U+A9D8", "U+A9D9", "U+A9F0", "U+A9F1", "U+A9F2", "U+A9F3",
      "U+A9F4", "U+A9F5", "U+A9F6", "U+A9F7", "U+A9F8", "U+A9F9",
      "U+AA50", "U+AA51", "U+AA52", "U+AA53", "U+AA54", "U+AA55",
      "U+AA56", "U+AA57", "U+AA58", "U+AA59", "U+ABF0", "U+ABF1",
      "U+ABF2", "U+ABF3", "U+ABF4", "U+ABF5", "U+ABF6", "U+ABF7",
      "U+ABF8", "U+ABF9", "U+FF10", "U+FF11", "U+FF12", "U+FF13",
      "U+FF14", "U+FF15", "U+FF16", "U+FF17", "U+FF18", "U+FF19",
      "U+104A0", "U+104A1", "U+104A2", "U+104A3", "U+104A4", "U+104A5",
      "U+104A6", "U+104A7", "U+104A8", "U+104A9", "U+10D30", "U+10D31",
      "U+10D32", "U+10D33", "U+10D34", "U+10D35", "U+10D36", "U+10D37",
      "U+10D38", "U+10D39", "U+11066", "U+11067", "U+11068", "U+11069",
      "U+1106A", "U+1106B", "U+1106C", "U+1106D", "U+1106E", "U+1106F",
      "U+110F0", "U+110F1", "U+110F2", "U+110F3", "U+110F4", "U+110F5",
      "U+110F6", "U+110F7", "U+110F8", "U+110F9", "U+11136", "U+11137",
      "U+11138", "U+11139", "U+1113A", "U+1113B", "U+1113C", "U+1113D",
      "U+1113E", "U+1113F", "U+111D0", "U+111D1", "U+111D2", "U+111D3",
      "U+111D4", "U+111D5", "U+111D6", "U+111D7", "U+111D8", "U+111D9",
      "U+112F0", "U+112F1", "U+112F2", "U+112F3", "U+112F4", "U+112F5",
      "U+112F6", "U+112F7", "U+112F8", "U+112F9", "U+11450", "U+11451",
      "U+11452", "U+11453", "U+11454", "U+11455", "U+11456", "U+11457",
      "U+11458", "U+11459", "U+114D0", "U+114D1", "U+114D2", "U+114D3",
      "U+114D4", "U+114D5", "U+114D6", "U+114D7", "U+114D8", "U+114D9",
      "U+11650", "U+11651", "U+11652", "U+11653", "U+11654", "U+11655",
      "U+11656", "U+11657", "U+11658", "U+11659", "U+116C0", "U+116C1",
      "U+116C2", "U+116C3", "U+116C4", "U+116C5", "U+116C6", "U+116C7",
      "U+116C8", "U+116C9", "U+11730", "U+11731", "U+11732", "U+11733",
      "U+11734", "U+11735", "U+11736", "U+11737", "U+11738", "U+11739",
      "U+118E0", "U+118E1", "U+118E2", "U+118E3", "U+118E4", "U+118E5",
      "U+118E6", "U+118E7", "U+118E8", "U+118E9", "U+11950", "U+11951",
      "U+11952", "U+11953", "U+11954", "U+11955", "U+11956", "U+11957",
      "U+11958", "U+11959", "U+11C50", "U+11C51", "U+11C52", "U+11C53",
      "U+11C54", "U+11C55", "U+11C56", "U+11C57", "U+11C58", "U+11C59",
      "U+11D50", "U+11D51", "U+11D52", "U+11D53", "U+11D54", "U+11D55",
      "U+11D56", "U+11D57", "U+11D58", "U+11D59", "U+11DA0", "U+11DA1",
      "U+11DA2", "U+11DA3", "U+11DA4", "U+11DA5", "U+11DA6", "U+11DA7",
      "U+11DA8", "U+11DA9", "U+16A60", "U+16A61", "U+16A62", "U+16A63",
      "U+16A64", "U+16A65", "U+16A66", "U+16A67", "U+16A68", "U+16A69",
      "U+16AC0", "U+16AC1", "U+16AC2", "U+16AC3", "U+16AC4", "U+16AC5",
      "U+16AC6", "U+16AC7", "U+16AC8", "U+16AC9", "U+16B50", "U+16B51",
      "U+16B52", "U+16B53", "U+16B54", "U+16B55", "U+16B56", "U+16B57",
      "U+16B58", "U+16B59", "U+1D7CE", "U+1D7CF", "U+1D7D0", "U+1D7D1",
      "U+1D7D2", "U+1D7D3", "U+1D7D4", "U+1D7D5", "U+1D7D6", "U+1D7D7",
      "U+1D7D8", "U+1D7D9", "U+1D7DA", "U+1D7DB", "U+1D7DC", "U+1D7DD",
      "U+1D7DE", "U+1D7DF", "U+1D7E0", "U+1D7E1", "U+1D7E2", "U+1D7E3",
      "U+1D7E4", "U+1D7E5", "U+1D7E6", "U+1D7E7", "U+1D7E8", "U+1D7E9",
      "U+1D7EA", "U+1D7EB", "U+1D7EC", "U+1D7ED", "U+1D7EE", "U+1D7EF",
      "U+1D7F0", "U+1D7F1", "U+1D7F2", "U+1D7F3", "U+1D7F4", "U+1D7F5",
      "U+1D7F6", "U+1D7F7", "U+1D7F8", "U+1D7F9", "U+1D7FA", "U+1D7FB",
      "U+1D7FC", "U+1D7FD", "U+1D7FE", "U+1D7FF", "U+1E140", "U+1E141",
      "U+1E142", "U+1E143", "U+1E144", "U+1E145", "U+1E146", "U+1E147",
      "U+1E148", "U+1E149", "U+1E2F0", "U+1E2F1", "U+1E2F2", "U+1E2F3",
      "U+1E2F4", "U+1E2F5", "U+1E2F6", "U+1E2F7", "U+1E2F8", "U+1E2F9",
      "U+1E950", "U+1E951", "U+1E952", "U+1E953", "U+1E954", "U+1E955",
      "U+1E956", "U+1E957", "U+1E958", "U+1E959", "U+1FBF0", "U+1FBF1",
      "U+1FBF2", "U+1FBF3", "U+1FBF4", "U+1FBF5", "U+1FBF6", "U+1FBF7",
      "U+1FBF8", "U+1FBF9"
    }

\* \d of argparse's negative-number pattern.
IsDigit(c) ==
    c \in {"0", "1", "2", "3", "4", "5", "6", "7", "8", "9"} \cup NonAsciiDigits

AllDigits(t) == \A i \in 1..Len(t) : IsDigit(t[i])

StartsWith(t, p) == Len(t) >= Len(p) /\ SubSeq(t, 1, Len(p)) = p

\* The text after the first n characters.
Drop(t, n) == SubSeq(t, n + 1, Len(t))

\* Position of the first c in t, 0 when there is none.
IndexOf(t, c) ==
    IF \E i \in 1..Len(t) : t[i] = c
    THEN CHOOSE i \in 1..Len(t) : t[i] = c /\ \A j \in 1..(i - 1) : t[j] # c
    ELSE 0

\* The text without the one newline that may end it: where the $ of a Python
\* pattern matches.
BeforeFinalNewline(t) ==
    IF Len(t) >= 1 /\ t[Len(t)] = "\n" THEN SubSeq(t, 1, Len(t) - 1) ELSE t

\* argparse's negative-number pattern '^-\d+$|^-\d*\.\d+$'.
IsNegativeNumber(t) ==
    /\ Len(t) >= 2
    /\ t[1] = "-"
    /\ LET r == BeforeFinalNewline(Drop(t, 1))
           d == IndexOf(r, ".")
       IN  \/ Len(r) >= 1 /\ AllDigits(r)
           \/ /\ d > 0
              /\ d < Len(r)
              /\ AllDigits(SubSeq(r, 1, d - 1))
              /\ AllDigits(Drop(r, d))

ShortHelp == << "-", "h" >>

LongFlag == << "-", "-", "m", "e", "s", "s", "a", "g", "e" >>

LongHelp == << "-", "-", "h", "e", "l", "p" >>

Separator == << "-", "-" >>

\* The text parse_args writes to standard output for -h is laid out by
\* argparse's HelpFormatter for the name the program was started under
\* (prog, the base name of sys.argv[0]) and the width of the terminal
\* (columns, from shutil.get_terminal_size()).  Lines are strings.

RECURSIVE Spaces(_)
Spaces(n) == IF n <= 0 THEN "" ELSE " " \o Spaces(n - 1)

\* ' '.join(parts) for a list of strings
RECURSIVE JoinStrings(_)
JoinStrings(parts) ==
    IF parts = << >> THEN ""
    ELSE IF Len(parts) = 1 THEN parts[1]
    ELSE parts[1] \o " " \o JoinStrings(Tail(parts))

Min(a, b) == IF a <= b THEN a ELSE b

Max(a, b) == IF a >= b THEN a ELSE b

\* The usage of the two options, in the parts _format_usage wraps it by.
OptParts == << "[-h]", "[-m [MESSAGE ...]]" >>

HelpInvocation == "-h, --help"

MessageInvocation == "-m [MESSAGE ...], --message [MESSAGE ...]"

\* The help strings of the two options, word by word (the backslash of line
\* 131 joins the two source lines of the second into one string).
HelpWords == << "show", "this", "help", "message", "and", "exit" >>

MessageWords ==
    << "Enter", "the", "message", "that", "you", "want", "to", "have",
       "sent.", "Up", "to", "1.6k", "characters", "is", "supported." >>

\* get_lines of _format_usage, before the indent is put in front: parts are
\* added to a line while it stays within text_width; line_len is the length
\* of the line so far (minus one), indent_len the length every later line
\* starts from.
RECURSIVE GetLines(_, _, _, _, _, _)
GetLines(parts, i, line, line_len, indent_len, text_width) ==
    IF i > Len(parts)
    THEN IF line = << >> THEN << >> ELSE << JoinStrings(line) >>
    ELSE IF line_len + 1 + Len(parts[i]) > text_width /\ line # << >>
    THEN << JoinStrings(line) >>
            \o GetLines(parts, i + 1, << parts[i] >>,
                        indent_len - 1 + Len(parts[i]) + 1, indent_len, text_width)
    ELSE GetLines(parts, i + 1, Append(line, parts[i]),
                  line_len + Len(parts[i]) + 1, indent_len, text_width)

\* Every line from the i-th on with n spaces in front.
Indent(lines, i, n) ==
    [j \in 1..Len(lines) |-> IF j >= i THEN Spaces(n) \o lines[j] ELSE lines[j]]

\* _format_usage: one line when it fits in the width; otherwise the options
\* are wrapped after the program name when that is short, and under it when
\* it is long.
UsageLines(prog, width) ==
    LET prefix == "usage: "
        action_usage == JoinStrings(OptParts)
        usage == IF prog = "" THEN action_usage ELSE prog \o " " \o action_usage
        lines ==
            IF Len(prefix) + Len(usage) <= width
            THEN << usage >>
            ELSE IF 4 * (Len(prefix) + Len(prog)) <= 3 * width
            THEN Indent(GetLines(<< prog >> \o OptParts, 1, << >>,
                                 Len(prefix) - 1, Len(prefix) + Len(prog) + 1,
                                 width),
                        2, Len(prefix) + Len(prog) + 1)
            ELSE << prog >>
                    \o Indent(GetLines(OptParts, 1, << >>, Len(prefix) - 1,
                                       Len(prefix), width),
                              1, Len(prefix))
    IN  << prefix \o lines[1] >> \o Tail(lines)

\* textwrap.wrap for words none of which is longer than the width: a word
\* joins the line while the line stays within the width.
RECURSIVE Wrap(_, _, _, _)
Wrap(words, i, line, width) ==
    IF i > Len(words)
    THEN IF line = << >> THEN << >> ELSE << JoinStrings(line) >>
    ELSE IF line # << >> /\ Len(JoinStrings(line)) + 1 + Len(words[i]) > width
    THEN << JoinStrings(line) >> \o Wrap(words, i + 1, << words[i] >>, width)
    ELSE Wrap(words, i + 1, Append(line, words[i]), width)

\* _format_action: the option's invocation, and its help from column
\* help_position on: on the same line when the invocation is short enough,
\* on the next line otherwise.
FormatAction(invocation, words, width) ==
    LET max_help_position == Min(24, Max(width - 20, 2 * 2))
        action_max_length == Max(Len(HelpInvocation), Len(MessageInvocation)) + 2
        help_position == Min(action_max_length + 2, max_help_position)
        help_width == Max(width - help_position, 11)
        action_width == help_position - 2 - 2
        help_lines == Wrap(words, 1, << >>, help_width)
    IN  IF Len(invocation) <= action_width
        THEN << Spaces(2) \o invocation
                    \o Spaces(action_width - Len(invocation)) \o "  "
                    \o help_lines[1] >>
                \o Indent(Tail(help_lines), 1, help_position)
        ELSE << Spaces(2) \o invocation >> \o Indent(help_lines, 1, help_position)

\* ArgumentParser.format_help, line by line.
HelpText(prog, columns) ==
    LET width == columns - 2
    IN  UsageLines(prog, width)
            \o << "", "options:" >>
            \o FormatAction(HelpInvocation, HelpWords, width)
            \o FormatAction(MessageInvocation, MessageWords, width)

\* argparse's _parse_optional for a parser whose option strings are -h,
\* --help, -m and --message: how one command-line token is read.
\*   kind      "word" (an argument), "help", "flag" (-m/--message),
\*             "unknown" (an option the parser does not have) or "ambiguous";
\*   explicit  whether a value is attached to the option (-mVALUE, -m=VALUE,
\*             --message=VALUE), and value, that value;
\*   long      whether the option matched is a double-dash one.
Token(t) ==
    LET eq    == IndexOf(t, "=")
        name  == IF eq > 0 THEN SubSeq(t, 1, eq - 1) ELSE t
        opt(k, e, v, l) == [kind |-> k, explicit |-> e, value |-> v, long |-> l]
        word  == opt("word", FALSE, << >>, FALSE)
        hits  == {o \in {LongHelp, LongFlag} : StartsWith(o, name)}
    IN  IF t = << >> \/ t[1] # "-" THEN word
        ELSE IF t = ShortHelp \/ t = LongHelp
        THEN opt("help", FALSE, << >>, t = LongHelp)
        ELSE IF t = Flag \/ t = LongFlag
        THEN opt("flag", FALSE, << >>, t = LongFlag)
        ELSE IF Len(t) = 1 THEN word
        ELSE IF eq > 0 /\ (name = ShortHelp \/ name = LongHelp)
        THEN opt("help", TRUE, Drop(t, eq), name = LongHelp)
        ELSE IF eq > 0 /\ (name = Flag \/ name = LongFlag)
        THEN opt("flag", TRUE, Drop(t, eq), name = LongFlag)
        ELSE IF t[2] = "-" /\ Cardinality(hits) > 1
        THEN opt("ambiguous", FALSE, << >>, TRUE)
        ELSE IF t[2] = "-" /\ hits = {LongHelp}
        THEN opt("help", eq > 0, Drop(t, eq), TRUE)
        ELSE IF t[2] = "-" /\ hits = {LongFlag}
        THEN opt("flag", eq > 0, Drop(t, eq), TRUE)
        ELSE IF t[2] = "h" THEN opt("help", TRUE, Drop(t, 2), FALSE)
        ELSE IF t[2] = "m" THEN opt("flag", TRUE, Drop(t, 2), FALSE)
        ELSE IF IsNegativeNumber(t) THEN word
        ELSE IF IndexOf(t, " ") > 0 THEN word
        ELSE opt("unknown", FALSE, << >>, FALSE)

\* The rest of a single-dash option string after -h (-hm, -hhx, ...), read as
\* further single-dash options: TRUE when every one is an option of the
\* parser up to the first -m, which takes what is left as its value.
RECURSIVE HelpChain(_)
HelpChain(e) ==
    IF e = << >> THEN TRUE
    ELSE IF e[1] = "m" THEN TRUE
    ELSE IF e[1] = "h" THEN HelpChain(Tail(e))
    ELSE FALSE

\* argparse's consume loop from token i on.  Each -m replaces what an earlier
\* one stored and takes the words up to the next option; -h prints the help
\* and exits as soon as it is reached; an option used wrongly is an error as
\* soon as it is reached; unknown options and words no -m takes are collected
\* (extras) and are an error at the end.
RECURSIVE Consume(_, _, _, _, _, _)
Consume(a, i, given, tokens, open, extras) ==
    IF i > Len(a)
    THEN [result |-> IF extras THEN "usage" ELSE "ok",
          given |-> given, tokens |-> tokens]
    ELSE LET k     == Token(a[i])
             usage == [result |-> "usage", given |-> FALSE, tokens |-> << >>]
             help  == [result |-> "help", given |-> FALSE, tokens |-> << >>]
         IN  IF k.kind = "word"
             THEN IF open
                  THEN Consume(a, i + 1, given, Append(tokens, a[i]), TRUE, extras)
                  ELSE Consume(a, i + 1, given, tokens, FALSE, TRUE)
             ELSE IF k.kind = "unknown"
             THEN Consume(a, i + 1, given, tokens, FALSE, TRUE)
             ELSE IF k.kind = "flag"
             THEN Consume(a, i + 1, TRUE,
                          IF k.explicit THEN << k.value >> ELSE << >>,
                          ~k.explicit, extras)
             ELSE IF ~k.explicit THEN help
             ELSE IF k.long \/ k.value = << >> THEN usage
             ELSE IF HelpChain(k.value) THEN help
             ELSE usage

\* The tokens before the first bare "--"; it and what follows it are
\* arguments that no option takes.
BeforeSeparator(a) ==
    IF IndexOf(a, Separator) > 0 THEN SubSeq(a, 1, IndexOf(a, Separator) - 1)
    ELSE a

\* args.parse_args() with add_argument('-m', '--message', dest='message',
\* required=False, nargs='*').  result is "ok" (.message is None without the
\* flag, else the list of tokens the last flag took), "help" (the help text
\* is printed and SystemExit(0) raised) or "usage" (SystemExit(2)).
ParseArgs(a) ==
    LET opts == BeforeSeparator(a)
    IN  IF \E i \in 1..Len(opts) : Token(opts[i]).kind = "ambiguous"
        THEN [result |-> "usage", given |-> FALSE, tokens |-> << >>]
        ELSE Consume(opts, 1, FALSE, << >>, FALSE, Len(opts) < Len(a))

\* ' '.join(tokens)
RECURSIVE Join(_)
Join(tokens) ==
    IF tokens = << >> THEN << >>
    ELSE IF Len(tokens) = 1 THEN Head(tokens)
    ELSE Head(tokens) \o << " " >> \o Join(Tail(tokens))

PreviewLen == 30

\* message[:30] + '...'
ShortVer(m) ==
    SubSeq(m, 1, IF Len(m) < PreviewLen THEN Len(m) ELSE PreviewLen)
        \o << ".", ".", "." >>

\* ------------------------------------------------------------------ credentials

\* The options read, in the order lines 55-58 read them, and the keys of the
\* dict they are stored under.
ConfigOptions ==
    << "ACCOUNT_SID", "AUTH_TOKEN", "FROM_PHONE_NUMBER", "MY_PHONE_NUMBER" >>

CredentialKeys ==
    << "ACCOUNT_SID", "AUTH_TOKEN", "FROM_PHONE_NUMBER", "TO_PHONE_NUMBER" >>

\* A value the parser cannot hand out: its lone % makes the lookup raise
\* InterpolationSyntaxError.
BadValue == "%"

\* The lookup of an option with this value raises (KeyError for an absent
\* option or section).
LookupRaises(v) == v \in {Missing, BadValue}

\* Number of options read before the first lookup that raises stops the try
\* block.
RECURSIVE OptionsRead(_, _)
OptionsRead(cfg, i) ==
    IF i > Len(ConfigOptions) THEN Len(ConfigOptions)
    ELSE IF LookupRaises(cfg[ConfigOptions[i]]) THEN i - 1
    ELSE OptionsRead(cfg, i + 1)

\* What config.read raises for a file the parser refuses.
ReadErrors ==
    { "MissingSectionHeaderError", "ParsingError", "DuplicateSectionError",
      "DuplicateOptionError", "UnicodeDecodeError" }

\* A loader that stores '' for an absent option instead of stopping.
LoadCredentialsWithFallback(cfg) ==
    [k \in {CredentialKeys[i] : i \in 1..Len(CredentialKeys)} |->
        LET v == cfg[ConfigOptions[CHOOSE i \in 1..Len(CredentialKeys) :
                                      CredentialKeys[i] = k]]
        IN  IF LookupRaises(v) THEN "" ELSE v]

\* The dict get_sms_credentials returns for a file the parser has read: the
\* options before the first one whose lookup raises; that exception is caught
\* and printed, not raised.
LoadCredentials(cfg) ==
    LET n == OptionsRead(cfg, 1)
    IN  [k \in {CredentialKeys[i] : i \in 1..n} |->
            cfg[ConfigOptions[CHOOSE i \in 1..n : CredentialKeys[i] = k]]]

\* ------------------------------------------------------------------ gateway

Statuses == {"queued", "sent", "delivered", "failed", "undelivered"}

\* The answer of a fetch that raises instead of returning a status.
FetchError == "<fetch raises>"

Answers == Statuses \cup {FetchError}

Scripts == UNION {[1..n -> Answers] : n \in 1..MaxScript}

\* ------------------------------------------------------------------ backoff

max_value == 13

\* The predicate with its comparison inverted.
PredicateInverted(s) == s = "delivered"

\* lambda status: status != 'delivered'
Predicate(s) == s # "delivered"

\* backoff.fibo(max_value): the value yielded in state (a, b)
FiboValue(a) == IF a < max_value THEN a ELSE max_value

\* and the generator's next state
FiboNext(a, b) == IF a < max_value THEN << b, a + b >> ELSE << a, b >>

\* backoff.random_jitter(value) = value + random.random(), for comparison.
RandomJitter(value) == (value * TicksPerSecond)..((value + 1) * TicksPerSecond)

\* backoff.full_jitter(value) = random.uniform(0, value): any time between 0
\* and value seconds, in ticks.
Jitter(value) == 0..(value * TicksPerSecond)

\* max_tries and max_time are None: the decorator never gives up.
GiveUp(t) == FALSE

Count(n) == IF n < MaxCount THEN n + 1 ELSE n

\* ------------------------------------------------------------------ initial states

Messages == {NoneStr, << >>, Hello, LongMessage}

Argvs ==
    { << >>, << Flag >>, << Flag, Hi, There >>, << Flag, Hi, Flag, There >>,
      << Flag \o Hi >>, << Hello >>, << ShortHelp >>,
      << Flag, << "-", "1", "\n" >>, << "-", "U+0663" >> >> }

\* Names the script is started under and terminal widths, for the help text.
Progs == {"text_myself.py", "t", "a_rather_long_program_name_for_a_short_terminal.py"}

Columns == {80, 51, 39, 21}

OptionValues == {Missing, "", "value"}

OptionNames == {ConfigOptions[i] : i \in 1..Len(ConfigOptions)}

\* The parser holds no option: the file is absent, empty or cannot be opened.
EmptyConfig == [o \in OptionNames |-> Missing]

\* Every option absent, empty or set, and the files with one bad value.
Configs ==
    [OptionNames -> OptionValues]
        \cup {[o \in OptionNames |-> IF o = b THEN BadValue ELSE "value"] :
                b \in OptionNames}

InitLocals ==
    /\ credentials = << >>
    /\ sms_message = None
    /\ script = << >>
    /\ pos = 1
    /\ creates = 0
    /\ fetches = 0
    /\ tries = 0
    /\ status = None
    /\ fibo_a = 1
    /\ fibo_b = 1
    /\ wait_value = -1
    /\ seconds = -1
    /\ exc = None
    /\ escaped = None
    /\ log = << >>
    /\ out = << >>

\* run(message) is called from another module, or the script is started with
\* a command line (the command line is not read when a message is passed).
Init ==
    /\ pc = "run"
    /\ \/ message \in {m \in Messages : TruthyStr(m)} /\ argv = << >>
       \/ message \in {m \in Messages : ~TruthyStr(m)} /\ argv \in Argvs
    /\ \/ /\ configExists = FALSE
          /\ config = EmptyConfig
          /\ readError = None
       \/ /\ configExists = TRUE
          /\ config \in Configs
          /\ readError \in {None} \cup ReadErrors
    /\ client = None
    /\ from_phone_number = None
    /\ to_phone_number = None
    /\ InitLocals

\* ------------------------------------------------------------------ get_sms_credentials

\* Lines 46-63.  The path check raises ValueError; config.read of line 52 is
\* outside the try block, so what it raises for a file the parser refuses
\* leaves the function; a lookup that raises inside the try block of lines
\* 54-61 is printed and the credentials read so far are returned.
GetSmsCredentials ==
    /\ pc = "get_sms_credentials"
    /\ IF ~configExists
       THEN /\ exc' = "ValueError: Path provided for config file does not exist"
            /\ pc' = "raised"
            /\ UNCHANGED << credentials, out >>
       ELSE IF readError # None
       THEN /\ exc' = readError
            /\ pc' = "raised"
            /\ UNCHANGED << credentials, out >>
       ELSE /\ credentials' = LoadCredentials(config)
            /\ out' = IF OptionsRead(config, 1) < Len(ConfigOptions)
                      THEN out \o << "config_filepath",
                                     "An exception occurred when reading config file" >>
                      ELSE out
            /\ pc' = "client"
            /\ UNCHANGED exc
    /\ UNCHANGED << argv, configExists, config, readError, message, client,
                    from_phone_number, to_phone_number, sms_message, script,
                    pos, creates, fetches, tries, status, fibo_a, fibo_b,
                    wait_value, seconds, escaped, log >>

\* ------------------------------------------------------------------ send_sms_message

\* The checks of lines 80-85 without the check of the message body.
ValidationErrorNoBody(c, f, t, m) ==
    IF ~Truthy(c) THEN "ValueError: No API client found."
    ELSE IF ~Truthy(f) THEN "ValueError: No from-phone-number found."
    ELSE IF ~Truthy(t) THEN "ValueError: No to-phone-number found."
    ELSE None

\* The first check of lines 80-87 that fails, None if none does.
ValidationError(c, f, t, m) ==
    IF ~Truthy(c) THEN "ValueError: No API client found."
    ELSE IF ~Truthy(f) THEN "ValueError: No from-phone-number found."
    ELSE IF ~Truthy(t) THEN "ValueError: No to-phone-number found."
    ELSE IF ~TruthyStr(m) THEN "ValueError: No message found."
    ELSE None

SendWarning == [level |-> "WARNING",
                text |-> "There was a problem when sending SMS message",
                preview |-> << >>, status |-> None]

\* send_sms_message with a second create call after a rejected one.
SendSmsMessageRetrying ==
    /\ pc = "send_sms_message"
    /\ LET err == ValidationError(client, from_phone_number, to_phone_number, message)
       IN  IF err # None
           THEN /\ exc' = err
                /\ pc' = "raised"
                /\ UNCHANGED << sms_message, script, creates, log >>
           ELSE /\ \/ \E s \in Scripts :
                        /\ creates' = Count(creates)
                        /\ sms_message' = Sid
                        /\ script' = s
                        /\ UNCHANGED log
                   \/ /\ creates' = Count(Count(creates))
                      /\ sms_message' = None
                      /\ log' = Append(log, SendWarning)
                      /\ UNCHANGED script
                /\ pc' = "send_returned"
                /\ UNCHANGED exc
    /\ UNCHANGED << argv, configExists, config, readError, message, credentials, client,
                    from_phone_number, to_phone_number, pos, fetches, tries,
                    status, fibo_a, fibo_b, wait_value, seconds, escaped, out >>

\* Lines 80-98: the four checks, then one create call whose exception is
\* caught and logged.
SendSmsMessage ==
    /\ pc = "send_sms_message"
    /\ LET err == ValidationError(client, from_phone_number, to_phone_number, message)
       IN  IF err # None
           THEN /\ exc' = err
                /\ pc' = "raised"
                /\ UNCHANGED << sms_message, script, creates, log >>
           ELSE /\ creates' = Count(creates)
                /\ \/ \E s \in Scripts :
                        /\ sms_message' = Sid
                        /\ script' = s
                        /\ UNCHANGED log
                   \/ /\ sms_message' = None
                      /\ log' = Append(log, SendWarning)
                      /\ UNCHANGED script
                /\ pc' = "send_returned"
                /\ UNCHANGED exc
    /\ UNCHANGED << argv, configExists, config, readError, message, credentials, client,
                    from_phone_number, to_phone_number, pos, fetches, tries,
                    status, fibo_a, fibo_b, wait_value, seconds, escaped, out >>

\* ------------------------------------------------------------------ confirm_sms_delivery

\* The poller of the script's earlier variant in one respect: an exception of
\* the fetch becomes the status 'send_error' instead of propagating.
ConfirmSmsDeliveryMasking ==
    /\ pc \in {"send_returned", "retry"}
    /\ tries' = Count(tries)
    /\ LET got == IF sms_message # None THEN script[pos] ELSE None
           answer == IF got = FetchError THEN "send_error" ELSE got
       IN  /\ IF sms_message # None
              THEN /\ fetches' = Count(fetches)
                   /\ pos' = IF pos < Len(script) THEN pos + 1 ELSE pos
              ELSE UNCHANGED << fetches, pos >>
           /\ IF Predicate(answer) /\ ~GiveUp(tries')
              THEN /\ wait_value' = FiboValue(fibo_a)
                   /\ fibo_a' = FiboNext(fibo_a, fibo_b)[1]
                   /\ fibo_b' = FiboNext(fibo_a, fibo_b)[2]
                   /\ seconds' \in Jitter(FiboValue(fibo_a))
                   /\ pc' = "sleep"
                   /\ UNCHANGED << status, exc >>
              ELSE /\ status' = answer
                   /\ pc' = "confirm_returned"
                   /\ UNCHANGED << fibo_a, fibo_b, wait_value, seconds, exc >>
    /\ UNCHANGED << argv, configExists, config, readError, message, credentials, client,
                    from_phone_number, to_phone_number, sms_message, script,
                    creates, escaped, log, out >>

\* One pass of the decorator's loop: the call of the decorated function
\* (lines 111-116), the predicate on what it returned and, when the predicate
\* asks for a retry, the wait to sleep before it.
ConfirmSmsDelivery ==
    /\ pc \in {"send_returned", "retry"}
    /\ tries' = Count(tries)
    /\ LET answer == IF sms_message # None THEN script[pos] ELSE None
       IN  /\ IF sms_message # None
              THEN /\ fetches' = Count(fetches)
                   /\ pos' = IF pos < Len(script) THEN pos + 1 ELSE pos
              ELSE UNCHANGED << fetches, pos >>
           /\ IF answer = FetchError
              THEN /\ exc' = "TwilioRestException"
                   /\ pc' = "raised"
                   /\ UNCHANGED << status, fibo_a, fibo_b, wait_value, seconds >>
              ELSE IF Predicate(answer) /\ ~GiveUp(tries')
              THEN /\ wait_value' = FiboValue(fibo_a)
                   /\ fibo_a' = FiboNext(fibo_a, fibo_b)[1]
                   /\ fibo_b' = FiboNext(fibo_a, fibo_b)[2]
                   /\ seconds' \in Jitter(FiboValue(fibo_a))
                   /\ pc' = "sleep"
                   /\ UNCHANGED << status, exc >>
              ELSE /\ status' = answer
                   /\ pc' = "confirm_returned"
                   /\ UNCHANGED << fibo_a, fibo_b, wait_value, seconds, exc >>
    /\ UNCHANGED << argv, configExists, config, readError, message, credentials, client,
                    from_phone_number, to_phone_number, sms_message, script,
                    creates, escaped, log, out >>

\* time.sleep(seconds), then the next pass of the loop.
BackoffSleep ==
    /\ pc = "sleep"
    /\ pc' = "retry"
    /\ UNCHANGED << argv, configExists, config, readError, message, credentials, client,
                    from_phone_number, to_phone_number, sms_message, script,
                    pos, creates, fetches, tries, status, fibo_a, fibo_b,
                    wait_value, seconds, exc, escaped, log, out >>

\* ------------------------------------------------------------------ run

\* Lines 128-133: without a message argument the message is read from the
\* command line; argparse's exit (after the help text, for -h) and the TypeError of
\* ' '.join(None) both happen before the try block.
RunParseArgs ==
    /\ pc = "run"
    /\ IF TruthyStr(message)
       THEN /\ pc' = "get_sms_credentials"
            /\ UNCHANGED << message, escaped, out >>
       ELSE IF ParseArgs(argv).result = "help"
       THEN /\ \E prog \in Progs, columns \in Columns :
                    out' = out \o HelpText(prog, columns)
            /\ escaped' = "SystemExit"
            /\ pc' = "crashed"
            /\ UNCHANGED message
       ELSE IF ParseArgs(argv).result = "usage"
       THEN /\ escaped' = "SystemExit"
            /\ pc' = "crashed"
            /\ UNCHANGED << message, out >>
       ELSE IF ParseArgs(argv).given
       THEN /\ message' = Join(ParseArgs(argv).tokens)
            /\ pc' = "get_sms_credentials"
            /\ UNCHANGED << escaped, out >>
       ELSE /\ escaped' = "TypeError: can only join an iterable"
            /\ pc' = "crashed"
            /\ UNCHANGED << message, out >>
    /\ UNCHANGED << argv, configExists, config, readError, credentials, client,
                    from_phone_number, to_phone_number, sms_message, script,
                    pos, creates, fetches, tries, status, fibo_a, fibo_b,
                    wait_value, seconds, exc, log >>

\* The first key lines 137-139 look up that the dict lacks, None if none.
MissingCredential(c, keys) ==
    IF \E i \in keys : CredentialKeys[i] \notin DOMAIN c
    THEN CredentialKeys[CHOOSE i \in keys :
            /\ CredentialKeys[i] \notin DOMAIN c
            /\ \A j \in keys : CredentialKeys[j] \notin DOMAIN c => i <= j]
    ELSE None

\* Lines 137-139: the client is built from the first two credentials (the
\* constructor is the gateway library's and may raise), then the two phone
\* numbers are looked up.
RunBuildClient ==
    /\ pc = "client"
    /\ IF MissingCredential(credentials, {1, 2}) # None
       THEN /\ exc' = "KeyError"
            /\ pc' = "raised"
            /\ UNCHANGED << client, from_phone_number, to_phone_number >>
       ELSE \/ /\ exc' = "TwilioException"
               /\ pc' = "raised"
               /\ UNCHANGED << client, from_phone_number, to_phone_number >>
            \/ /\ client' = "Client"
               /\ IF MissingCredential(credentials, {3}) # None
                  THEN /\ exc' = "KeyError"
                       /\ pc' = "raised"
                       /\ UNCHANGED << from_phone_number, to_phone_number >>
                  ELSE /\ from_phone_number' = credentials["FROM_PHONE_NUMBER"]
                       /\ IF MissingCredential(credentials, {4}) # None
                          THEN /\ exc' = "KeyError"
                               /\ pc' = "raised"
                               /\ UNCHANGED to_phone_number
                          ELSE /\ to_phone_number' = credentials["TO_PHONE_NUMBER"]
                               /\ pc' = "send_sms_message"
                               /\ UNCHANGED exc
    /\ UNCHANGED << argv, configExists, config, readError, message, credentials,
                    sms_message, script, pos, creates, fetches, tries, status,
                    fibo_a, fibo_b, wait_value, seconds, escaped, log, out >>

\* The line lines 143-149 write for the status the poller returned.
OutcomeLine(m, s) ==
    IF s = "delivered"
    THEN [level |-> "INFO", text |-> "Successfully sent message",
          preview |-> ShortVer(m), status |-> None]
    ELSE [level |-> "WARNING", text |-> "Issue sending message",
          preview |-> ShortVer(m), status |-> s]

RunLogOutcome ==
    /\ pc = "confirm_returned"
    /\ log' = Append(log, OutcomeLine(message, status))
    /\ pc' = "done"
    /\ UNCHANGED << argv, configExists, config, readError, message, credentials, client,
                    from_phone_number, to_phone_number, sms_message, script,
                    pos, creates, fetches, tries, status, fibo_a, fibo_b,
                    wait_value, seconds, exc, escaped, out >>

\* The line the handler of lines 150-152 logs for exception e.
ErrorLine(e) ==
    [level |-> "WARNING", text |-> "Error sending message",
     preview |-> << >>, status |-> e]

\* The exceptions whose text the gateway library composes.
GatewayErrors == {"TwilioException", "TwilioRestException"}

\* The lines of str(e) after the first, for an exception of type e.  The
\* text of MissingSectionHeaderError has three lines (the message, the file
\* and line number, the offending line), that of ParsingError one more line
\* for every line of the file the parser could not read; the text of a
\* gateway exception is the library's; every other text raised here is one
\* line.
TextLines(e) ==
    IF e = "MissingSectionHeaderError"
    THEN {<< "file: 'config_filepath', line: N", "'source line'" >>}
    ELSE IF e = "ParsingError"
    THEN {[i \in 1..n |-> "[line N]: 'source line'"] : n \in 1..MaxTextLines}
    ELSE IF e \in GatewayErrors
    THEN {[i \in 1..n |-> "gateway error text"] : n \in 0..MaxTextLines}
    ELSE {<< >>}

\* Lines 150-152: every Exception raised inside the try block ends here; the
\* text of the exception is printed after the label, line by line, and
\* logged as one record.
RunExcept ==
    /\ pc = "raised"
    /\ \E lines \in TextLines(exc) :
          out' = out \o << "Error sending message" >> \o lines
    /\ log' = Append(log, ErrorLine(exc))
    /\ pc' = "done"
    /\ UNCHANGED << argv, configExists, config, readError, message, credentials, client,
                    from_phone_number, to_phone_number, sms_message, script,
                    pos, creates, fetches, tries, status, fibo_a, fibo_b,
                    wait_value, seconds, exc, escaped >>

Next ==
    \/ RunParseArgs
    \/ GetSmsCredentials
    \/ RunBuildClient
    \/ SendSmsMessage
    \/ ConfirmSmsDelivery
    \/ BackoffSleep
    \/ RunLogOutcome
    \/ RunExcept

Spec == Init /\ [][Next]_vars

\* The program is one thread that takes its next step whenever it has one.
FairSpec == Spec /\ WF_vars(Next)

\* send_sms_message called on its own, with every combination of arguments.
InitSend ==
    /\ pc = "send_sms_message"
    /\ client \in {None, "Client"}
    /\ from_phone_number \in {None, "", PhoneNumber}
    /\ to_phone_number \in {None, "", PhoneNumber}
    /\ message \in Messages
    /\ argv = << >>
    /\ configExists = TRUE
    /\ config = [o \in OptionNames |-> "value"]
    /\ readError = None
    /\ InitLocals

NextSend == SendSmsMessage

SendSpec == InitSend /\ [][NextSend]_vars

\* ------------------------------------------------------------------ properties

\* The position of the first "delivered" among the gateway's answers when no
\* fetch raises before it, 0 when there is none.
DeliveredAt(s) ==
    IF \E i \in 1..Len(s) :
          s[i] = "delivered" /\ \A j \in 1..(i - 1) : s[j] \in Statuses \ {"delivered"}
    THEN CHOOSE i \in 1..Len(s) :
          s[i] = "delivered" /\ \A j \in 1..(i - 1) : s[j] \in Statuses \ {"delivered"}
    ELSE 0

\* The position of the first fetch that raises when no answer before it is
\* "delivered", 0 when there is none.
ErrorAt(s) ==
    IF \E i \in 1..Len(s) :
          s[i] = FetchError /\ \A j \in 1..(i - 1) : s[j] \in Statuses \ {"delivered"}
    THEN CHOOSE i \in 1..Len(s) :
          s[i] = FetchError /\ \A j \in 1..(i - 1) : s[j] \in Statuses \ {"delivered"}
    ELSE 0

\* The gateway never answers "delivered" and no fetch raises.
NeverDelivered(s) == \A i \in 1..Len(s) : s[i] \in Statuses \ {"delivered"}

Polled == {"confirm_returned", "done"}

HasLine(texts) == \E i \in 1..Len(log) : log[i].text \in texts

\* C1: with a non-null handle and a gateway whose first "delivered" is its k-th
\* answer, the poller never fetches more than k times, the k-th fetch ends the
\* polling, and the poller has returned "delivered" after exactly k fetches.
C1_DeliveredAfterExactlyKFetches ==
    (sms_message # None /\ DeliveredAt(script) > 0) =>
        /\ fetches <= DeliveredAt(script)
        /\ fetches = DeliveredAt(script) => pc \in Polled
        /\ pc \in Polled => fetches = DeliveredAt(script) /\ status = "delivered"

C1_Witness ==
    /\ pc = "confirm_returned"
    /\ script = << "queued", "queued", "delivered" >>
    /\ fetches = 3
    /\ status = "delivered"

\* C2: with a non-null handle and a gateway that never answers "delivered",
\* the poller eventually returns a status that is not "delivered".
C2_PollingTerminates ==
    (pc = "send_returned" /\ sms_message # None /\ NeverDelivered(script))
        ~> (pc = "confirm_returned" /\ status # "delivered")

\* C3: called with a null handle, the poller returns a null status without
\* having fetched.
C3_NullHandleReturnsNull ==
    (pc = "send_returned" /\ sms_message = None)
        ~> (pc = "confirm_returned" /\ status = None /\ fetches = 0)

\* C4 as stated: no wait exceeds max_value and each wait before a retry is no
\* shorter than the wait before the previous retry.
C4_WaitsNeverShorten ==
    [][pc' = "sleep" =>
        /\ seconds' <= max_value * TicksPerSecond
        /\ seconds >= 0 => seconds' >= seconds]_vars

\* C4 as amended: the bound the wait generator yields before each retry is no
\* smaller than the one before and never exceeds max_value, and the wait slept
\* lies between 0 and that bound.
C4_WaitBoundsNeverShorten ==
    [][pc' = "sleep" =>
        /\ wait_value' >= wait_value
        /\ wait_value' <= max_value
        /\ 0 <= seconds'
        /\ seconds' <= wait_value' * TicksPerSecond]_vars

C4_Witness ==
    /\ pc = "sleep"
    /\ wait_value = max_value
    /\ seconds = 5
    /\ script = << "queued", "queued", "failed" >>

\* Some argument of send_sms_message is missing or empty.
InvalidArguments ==
    \/ ~Truthy(client)
    \/ ~Truthy(from_phone_number)
    \/ ~Truthy(to_phone_number)
    \/ ~TruthyStr(message)

ValueErrors ==
    { "ValueError: No API client found.",
      "ValueError: No from-phone-number found.",
      "ValueError: No to-phone-number found.",
      "ValueError: No message found." }

\* C5: send_sms_message called with a missing client, sender, recipient or
\* body raises ValueError, and create is never called.
C5_InvalidArgumentsRaise ==
    InvalidArguments =>
        /\ creates = 0
        /\ sms_message = None
        /\ pc # "send_sms_message" => pc = "raised" /\ exc \in ValueErrors

C5_Witness ==
    /\ pc = "raised"
    /\ exc = "ValueError: No message found."
    /\ message = << >>
    /\ client = "Client"
    /\ from_phone_number = PhoneNumber
    /\ to_phone_number = PhoneNumber
    /\ creates = 0

\* The config file exists and lacks one of the four options.
OptionMissing ==
    /\ configExists
    /\ \E i \in 1..Len(ConfigOptions) : config[ConfigOptions[i]] = Missing

\* C6 as stated: with an option missing, get_sms_credentials does not return
\* normally, and no message is submitted.
C6_LoadingFails ==
    OptionMissing => pc # "client" /\ creates = 0

\* C6 as amended: with an option missing, a file the parser refuses makes
\* get_sms_credentials raise the parser's error, with nothing printed and no
\* credentials returned; a file the parser reads makes it print the error and
\* return the credentials read before the missing option, and run then raises
\* inside its try block before send_sms_message is reached.  Either way run
\* logs the error as a warning and submits nothing.
C6_MissingOptionSubmitsNothing ==
    OptionMissing =>
        /\ creates = 0
        /\ pc \in {"run", "crashed", "get_sms_credentials", "client", "raised", "done"}
        /\ readError # None =>
              /\ pc # "client"
              /\ credentials = << >>
              /\ pc = "raised" => exc = readError /\ out = << >>
              /\ pc = "done" =>
                    /\ exc = readError
                    /\ \E lines \in TextLines(readError) :
                          out = << "Error sending message" >> \o lines
        /\ (readError = None /\ pc \in {"client", "raised", "done"}) =>
              /\ DOMAIN credentials =
                    {CredentialKeys[i] : i \in 1..OptionsRead(config, 1)}
              /\ SubSeq(out, 1, 2) =
                    << "config_filepath",
                       "An exception occurred when reading config file" >>
              /\ pc \in {"raised", "done"} => exc \in {"KeyError", "TwilioException"}
        /\ pc = "done" => log = << ErrorLine(exc) >>

C6_Witness ==
    /\ pc = "done"
    /\ configExists
    /\ readError = None
    /\ config["ACCOUNT_SID"] = "value"
    /\ config["AUTH_TOKEN"] = "value"
    /\ config["FROM_PHONE_NUMBER"] = "value"
    /\ config["MY_PHONE_NUMBER"] = Missing
    /\ client = "Client"
    /\ exc = "KeyError"
    /\ creates = 0

\* C7: the first fetch that raises ends the polling: the exception is the one
\* being raised, no status is assigned, no further fetch is made, and run logs
\* the exception as a warning and no success line.
C7_FetchErrorPropagates ==
    /\ (sms_message # None /\ ErrorAt(script) > 0) =>
          /\ fetches <= ErrorAt(script)
          /\ fetches = ErrorAt(script) =>
                /\ exc = "TwilioRestException"
                /\ pc \in {"raised", "done"}
    /\ exc = "TwilioRestException" =>
          /\ fetches = ErrorAt(script)
          /\ status = None
          /\ pc \in {"raised", "done"}
          /\ pc = "done" =>
                /\ log = << ErrorLine("TwilioRestException") >>
                /\ ~HasLine({"Successfully sent message"})

C7_Witness ==
    /\ pc = "done"
    /\ exc = "TwilioRestException"
    /\ script = << "queued", FetchError >>
    /\ fetches = 2

\* C8: send_sms_message with valid arguments calls create exactly once; a
\* rejected submission returns a null handle with a warning logged and nothing
\* raised, an accepted one returns the handle; a run calls create at most once.
C8_SubmitsExactlyOnce ==
    /\ creates <= 1
    /\ pc \in {"send_returned", "retry", "sleep", "confirm_returned"} =>
          /\ creates = 1
          /\ exc = None
          /\ sms_message \in {None, Sid}
          /\ sms_message = None <=> log = << SendWarning >>
          /\ sms_message = Sid <=> script # << >>
    /\ pc \in {"run", "get_sms_credentials", "client", "send_sms_message", "crashed"} =>
          creates = 0

C8_Witness ==
    /\ pc = "send_returned"
    /\ sms_message = None
    /\ creates = 1
    /\ log = << SendWarning >>

\* C9: no error leaves run (argparse's own exit on a command line it rejects,
\* or on -h, is not counted as one).
C9_NoExceptionEscapes == escaped \in {None, "SystemExit"}

OutcomeTexts ==
    {"Successfully sent message", "Issue sending message", "Error sending message"}

\* C10: a run whose message the gateway accepted eventually logs an outcome
\* line, and a success line is only ever logged for the status "delivered".
C10_OutcomeLineRecorded ==
    /\ (creates >= 1 /\ sms_message # None) ~> HasLine(OutcomeTexts)
    /\ [](HasLine({"Successfully sent message"}) => status = "delivered")

====
